---- MODULE Spec2Model ----
(***************************************************************************)
(* Model of the CoinDCX futures bot: the controller functions of app.py    *)
(* (session gate, signal evaluation, order lifecycle, stop engine, retry   *)
(* layer) and the driver loop of worker.py.                                *)
(*                                                                         *)
(* Prices, sizes and distances are integers (the code uses floats; the     *)
(* values used here are exactly representable).  Divisions of the          *)
(* indicator formulas are compared after cross-multiplication.  Times of   *)
(* day are minutes after midnight, 0 .. 1439.                              *)
(***************************************************************************)
EXTENDS Integers, Sequences, FiniteSets, TLC

\* Python's None for a side
None == "None"
\* Python's None for an order id, a price, or a failed market-data fetch
\* (the code tests these by truthiness, which 0 and the empty list share)
NoOrder == 0
NoPrice == 0
NoCandles == <<>>

(* ------------------------------ bounds -------------------------------- *)
\* entry orders the venue accepts in one run
MaxOrders == 2
\* nested force_close_position re-entries before the interpreter's
\* recursion limit raises RecursionError
MaxDepth == 2
\* outbound attempts whose outcome is chosen one by one; later attempts
\* all share one outcome
MaxNet == 2
\* number of grid points of the time-of-day grid of SessionSpec
GridPoints == 16
\* configurations that replace the first one while one manage_position is
\* suspended
MaxWrites == 1

(* -------------------------- program constants ------------------------- *)
MAX_ERROR_RETRIES == 2
MIN_PROFIT_FOR_BREAKEVEN == 25
MinutesPerDay == 1440
IstOffset == 330
AtrPeriod == 7
StMultiplier == 2

(* ------------------------------ domains ------------------------------- *)
Sides == {"buy", "sell"}
Statuses == {"open", "filled", "cancelled", "rejected"}
OrderSizes == {1, 2}
StopDistances == {25, 40}
TrailSteps == {0, 10}
\* the session window the control panel sets: 08:00-05:00 IST, over midnight
SessionStarts == {480}
SessionEnds == {300}
\* UTC instants of 23:00 IST (in session) and 06:00 IST (out of session)
ClockTimes == {1050, 30}
LatestPrices == {55, 70, 75, 120, 125, 130, 145}

Max(a, b) == IF a >= b THEN a ELSE b
Abs(a) == IF a >= 0 THEN a ELSE -a

\* Python's floor division a // b; b = 0 is ZeroDivisionError, handled by
\* the caller
FloorDiv(a, b) ==
    IF b > 0 THEN (IF a >= 0 THEN a \div b ELSE -(((-a) + b - 1) \div b))
    ELSE (IF a <= 0 THEN (-a) \div (-b) ELSE -((a + (-b) - 1) \div (-b)))

(* --------------------------- session gate ----------------------------- *)
ist_time_to_utc_time_Added(ist) == (ist + IstOffset) % MinutesPerDay

\* ist_time_to_utc_time: subtract 5h30m, keep hour and minute of the result
ist_time_to_utc_time(ist) == (ist - IstOffset + MinutesPerDay) % MinutesPerDay

\* is_in_trading_session for the clock reading current_utc_t and the
\* configured IST start and end
is_in_trading_session(current_utc_t, start, end) ==
    LET start_utc_t == ist_time_to_utc_time(start)
        end_utc_t == ist_time_to_utc_time(end)
    IN  IF end_utc_t < start_utc_t
        THEN (current_utc_t >= start_utc_t \/ current_utc_t < end_utc_t)
        ELSE (start_utc_t <= current_utc_t /\ current_utc_t < end_utc_t)

session_just_ended_Level(was_active, now_in_session) ==
    [ended |-> (now_in_session = FALSE), was_active |-> now_in_session]

\* session_just_ended: the returned flag and the new _session_was_active
session_just_ended(was_active, now_in_session) ==
    [ended |-> (was_active = TRUE /\ now_in_session = FALSE),
     was_active |-> now_in_session]

(* ---------------------------- indicators ------------------------------ *)
\* a candle is [high, low, close, vol]; a window is a sequence of candles
Candle(h, l, c, v) == [high |-> h, low |-> l, close |-> c, vol |-> v]

RECURSIVE SumTpv(_, _)
\* three times the running total_tpv of compute_vwap over candles 1..n
SumTpv(candles, n) ==
    IF n = 0 THEN 0
    ELSE SumTpv(candles, n - 1)
         + (candles[n].high + candles[n].low + candles[n].close) * candles[n].vol

RECURSIVE SumVol(_, _)
SumVol(candles, n) ==
    IF n = 0 THEN 0 ELSE SumVol(candles, n - 1) + candles[n].vol

\* compute_vwap as the fraction tpv3 / (3 * vol); None when vol = 0
compute_vwap(candles) ==
    [tpv3 |-> SumTpv(candles, Len(candles)),
     vol |-> SumVol(candles, Len(candles)),
     none |-> (SumVol(candles, Len(candles)) = 0)]

\* "not vwap_val": None or 0.0
VwapMissing(vwap) == vwap.none \/ vwap.tpv3 = 0
AboveVwap(x, vwap) == 3 * x * vwap.vol > vwap.tpv3
BelowVwap(x, vwap) == 3 * x * vwap.vol < vwap.tpv3

\* true range of candle j+1 against candle j (trs[j-1] of compute_atr)
TrueRange(candles, j) ==
    LET high == candles[j + 1].high
        low == candles[j + 1].low
        prev_close == candles[j].close
    IN  Max(high - low, Max(Abs(high - prev_close), Abs(low - prev_close)))

RECURSIVE SumTr(_, _, _)
SumTr(candles, from, to) ==
    IF from > to THEN 0 ELSE TrueRange(candles, to) + SumTr(candles, from, to - 1)

\* AtrPeriod times atrs[k-1] of compute_atr (defined for k > AtrPeriod)
AtrTimesPeriod(candles, k) == SumTr(candles, k - AtrPeriod + 1, k)

RECURSIVE StColor(_, _)
\* st_colors[k-1] of compute_supertrend
StColor(candles, k) ==
    IF Len(candles) < AtrPeriod + 1 THEN "red"
    ELSE IF k = 1 \/ k - 1 <= AtrPeriod THEN "red"
    ELSE LET high == candles[k].high
             low == candles[k].low
             close == candles[k].close
             s == AtrTimesPeriod(candles, k - 1)
             ub2p == AtrPeriod * (high + low) + 2 * StMultiplier * s
             lb2p == AtrPeriod * (high + low) - 2 * StMultiplier * s
         IN  IF 2 * AtrPeriod * close > ub2p THEN "green"
             ELSE IF 2 * AtrPeriod * close < lb2p THEN "red"
             ELSE StColor(candles, k - 1)

compute_supertrend(candles) == [k \in 1..Len(candles) |-> StColor(candles, k)]

\* candles[-5:]
LastFive(candles) == SubSeq(candles, Max(1, Len(candles) - 4), Len(candles))

Signal_LastCandle(candles) ==
    IF candles = NoCandles THEN [side |-> None, trigger |-> 0]
    ELSE IF Len(candles) < 4 THEN [side |-> None, trigger |-> 0]
    ELSE LET vwap_val == compute_vwap(LastFive(candles))
             st_colors == compute_supertrend(candles)
             c2 == candles[Len(candles)]
             c3 == candles[Len(candles) - 1]
             st_color2 == st_colors[Len(candles)]
         IN  IF VwapMissing(vwap_val) THEN [side |-> None, trigger |-> 0]
             ELSE IF AboveVwap(c3.close, vwap_val) /\ AboveVwap(c2.close, vwap_val)
                     /\ st_color2 = "green"
                  THEN [side |-> "buy", trigger |-> c2.high]
             ELSE IF BelowVwap(c3.close, vwap_val) /\ BelowVwap(c2.close, vwap_val)
                     /\ st_color2 = "red"
                  THEN [side |-> "sell", trigger |-> c2.low]
             ELSE [side |-> None, trigger |-> 0]

\* the decision of check_strategy_conditions for a fetched window:
\* "buy", "sell" or None, with the trigger price
Signal(candles) ==
    IF candles = NoCandles THEN [side |-> None, trigger |-> 0]
    ELSE IF Len(candles) < 4 THEN [side |-> None, trigger |-> 0]
    ELSE LET vwap_val == compute_vwap(LastFive(candles))
             st_colors == compute_supertrend(candles)
             c2 == candles[Len(candles) - 1]
             c3 == candles[Len(candles) - 2]
             st_color2 == st_colors[Len(candles) - 1]
         IN  IF VwapMissing(vwap_val) THEN [side |-> None, trigger |-> 0]
             ELSE IF AboveVwap(c3.close, vwap_val) /\ AboveVwap(c2.close, vwap_val)
                     /\ st_color2 = "green"
                  THEN [side |-> "buy", trigger |-> c2.high]
             ELSE IF BelowVwap(c3.close, vwap_val) /\ BelowVwap(c2.close, vwap_val)
                     /\ st_color2 = "red"
                  THEN [side |-> "sell", trigger |-> c2.low]
             ELSE [side |-> None, trigger |-> 0]

\* windows the candle endpoint returns in this model
Flat(n, p, v) == [i \in 1..n |-> Candle(p, p, p, v)]
BuyWindow ==
    Flat(7, 80, 10) \o <<Candle(90, 80, 90, 1), Candle(100, 80, 100, 1), Candle(101, 99, 100, 1)>>
SellWindow ==
    Flat(7, 120, 10) \o <<Candle(120, 110, 110, 1), Candle(120, 100, 100, 1), Candle(101, 99, 100, 1)>>
FlatWindow == Flat(10, 100, 1)
ShortWindow == Flat(3, 100, 1)
ZeroVolWindow == Flat(10, 100, 0)
CandleFeeds == {NoCandles, BuyWindow, SellWindow, FlatWindow, ShortWindow, ZeroVolWindow}

\* the windows of SignalSpec: a flat history of 1, 2 or 7 candles followed
\* by three candles ([-3], [-2] and the latest one) drawn from TailCandles
SignalPrefixes == {Flat(1, 100, 1), Flat(2, 100, 0), Flat(7, 80, 10), Flat(7, 120, 10)}
TailCandles ==
    {Candle(90, 80, 90, 1), Candle(100, 80, 100, 1), Candle(120, 110, 110, 1),
     Candle(120, 100, 100, 1), Candle(101, 99, 100, 1), Candle(150, 150, 150, 50),
     Candle(100, 100, 100, 0)}
SignalWindows ==
    {p \o <<c3, c2, c1>> : p \in SignalPrefixes, c3 \in TailCandles,
                           c2 \in TailCandles, c1 \in TailCandles}

(* ------------------------------- state -------------------------------- *)
VARIABLES
    \* configuration globals of app.py, written by the control panel
    BOT_ACTIVE, ORDER_SIZE, STOP_LOSS_DISTANCE, TSL_STEP,
    TRADING_SESSION_START, TRADING_SESSION_END,
    \* controller globals of app.py
    BOT_IN_TRADE, current_position_side, entry_price, stop_loss_price,
    pending_order_id, pending_order_side, pending_trigger_price,
    session_was_active,
    \* environment: UTC time of day, the number of entry orders the venue
    \* has accepted (the id of the latest one) and its record of the latest
    \* one; the controller never holds the id of an older order
    utc_now, order_count, last_order,
    \* observation of the last step: the operation, the controller
    \* functions it entered, its outbound calls, the number of times
    \* safe_request entered force_close_position (the increase of
    \* ERROR_COUNT), how control left the handler ("run": returned,
    \* "raise": an exception reached the caller, "exit": sys.exit), the value
    \* session_just_ended returned, and the session membership seen by the
    \* previous call of session_just_ended
    op, called, out, fatal_entries, ctl, sje_ret, hist_in_session,
    \* what the last step read from the endpoints: the latest price
    \* manage_position obtained, the window check_strategy_conditions
    \* fetched, and what the order list said about the pending order
    \* ("unqueried", "absent" or the status of the entry with its id)
    seen_price, seen_candles, matched,
    \* worker.py: now - last_condition_check >= check_interval
    check_due,
    \* a manage_position suspended in the request of get_latest_price
    \* (pc = "fetching"), the tunables it has read so far and the
    \* configurations the globals held since it began
    pc, tick_reads, tick_versions,
    \* what the last handler call was given (the outcomes of the coming
    \* attempts and what the endpoints answer) and how many attempts each
    \* of its outbound calls made
    call_in, attempts

config == <<BOT_ACTIVE, ORDER_SIZE, STOP_LOSS_DISTANCE, TSL_STEP,
            TRADING_SESSION_START, TRADING_SESSION_END>>
controller == <<BOT_IN_TRADE, current_position_side, entry_price, stop_loss_price,
                pending_order_id, pending_order_side, pending_trigger_price>>
venue == <<order_count, last_order>>
observed == <<op, called, out, fatal_entries, ctl, sje_ret, hist_in_session,
             seen_price, seen_candles, matched>>
tick == <<pc, tick_reads, tick_versions>>
retry == <<call_in, attempts>>
vars == <<config, controller, session_was_active, utc_now, venue, observed,
          check_due, tick, retry>>

halted == ctl = "exit"

\* no handler call observed with its inputs
NoInputs == [net |-> <<>>, tail |-> TRUE, price |-> NoPrice, listed |-> TRUE,
             candles |-> NoCandles]

\* no tunable read yet by a suspended manage_position
NoReads == [stop_loss_distance |-> 0, session_start |-> 0, session_end |-> 0]

InSession == is_in_trading_session(utc_now, TRADING_SESSION_START, TRADING_SESSION_END)

(* ----------------------- the running handler -------------------------- *)
\* The state a handler works on: the controller globals, the venue's book,
\* what the market-data endpoint answers during the handler (feed_price:
\* the close of the latest candle or NoPrice, feed_listed: whether the order
\* list contains the pending order), the outcomes of the coming outbound
\* attempts (net, then tail for all later ones), and the observation.
Machine(net, tail, price, listed) ==
    [BOT_IN_TRADE |-> BOT_IN_TRADE,
     current_position_side |-> current_position_side,
     entry_price |-> entry_price,
     stop_loss_price |-> stop_loss_price,
     pending_order_id |-> pending_order_id,
     pending_order_side |-> pending_order_side,
     pending_trigger_price |-> pending_trigger_price,
     order_count |-> order_count, last_order |-> last_order,
     feed_price |-> price, feed_listed |-> listed,
     net |-> net, tail |-> tail,
     new_id |-> NoOrder, depth |-> 0,
     latest_price |-> NoPrice, seen_candles |-> NoCandles, matched |-> "unqueried",
     called |-> <<>>, out |-> <<>>, attempts |-> <<>>, fatal_entries |-> 0,
     ctl |-> "run"]

Enter(m, fn) == [m EXCEPT !.called = Append(@, fn)]

Request(call, side, price, quantity, order_type, id) ==
    [call |-> call, side |-> side, price |-> price, quantity |-> quantity,
     order_type |-> order_type, id |-> id]

\* the record of an outbound call in the observation (a market order
\* executes at the venue's price: its price field is not recorded)
Logged(req, ok) ==
    [call |-> req.call, side |-> req.side,
     price |-> IF req.order_type = "market" THEN NoPrice ELSE req.price,
     quantity |-> req.quantity, order_type |-> req.order_type, id |-> req.id,
     ok |-> ok]

\* outcome of the i-th coming attempt
Attempt(m, i) == IF i <= Len(m.net) THEN m.net[i] ELSE m.tail

DropNet(m, k) ==
    [m EXCEPT !.net = IF k >= Len(@) THEN <<>> ELSE SubSeq(@, k + 1, Len(@))]

\* the venue serving one request: a stop-limit order is booked as open and
\* gets the next id, a cancel closes an open order, a market order executes
\* at once, the order list is read from the book
Serve(m, req) ==
    IF req.call = "place" /\ req.order_type = "stop_limit"
    THEN [m EXCEPT !.last_order = [side |-> req.side, price |-> req.price,
                                   quantity |-> req.quantity, status |-> "open"],
                   !.order_count = @ + 1,
                   !.new_id = m.order_count + 1]
    ELSE IF req.call = "cancel" /\ req.id = m.order_count
    THEN [m EXCEPT !.last_order.status = IF @ = "open" THEN "cancelled" ELSE @]
    ELSE m

RECURSIVE safe_request(_, _), force_close_position(_)

cancel_order(m, order_id) ==
    safe_request(m, Request("cancel", None, NoPrice, 0, None, order_id))

place_order(m, side, price, trigger_price, quantity, order_type) ==
    safe_request(m, Request("place", side, price, quantity, order_type, NoOrder))

get_latest_price(m) == m.feed_price

\* lines 137-140, 447-450, 458-461, unless the call before has not returned
ClearPosition(m) ==
    IF m.ctl # "run" THEN m
    ELSE [m EXCEPT !.BOT_IN_TRADE = FALSE, !.current_position_side = None,
                   !.entry_price = NoPrice, !.stop_loss_price = NoPrice]

\* lines 121-123 and 304-306, unless cancel_order has not returned
ClearPending(m) ==
    IF m.ctl # "run" THEN m
    ELSE [m EXCEPT !.pending_order_id = NoOrder,
                   !.pending_order_side = None,
                   !.pending_trigger_price = NoPrice]

\* force_close_position, lines 119-123
CancelPending(m) ==
    IF m.pending_order_id # NoOrder
    THEN ClearPending(cancel_order(m, m.pending_order_id))
    ELSE m

\* force_close_position, lines 125-135
MarketClose(m) ==
    IF m.ctl # "run" THEN m
    ELSE IF m.BOT_IN_TRADE /\ m.current_position_side \in Sides
    THEN IF get_latest_price(m) # NoPrice
         THEN place_order(m, IF m.current_position_side = "buy" THEN "sell" ELSE "buy",
                          get_latest_price(m), get_latest_price(m), ORDER_SIZE, "market")
         ELSE m
    ELSE m

\* force_close_position: cancel the pending order, close the position with
\* a market order if a latest price is available, clear the position
force_close_position(m) ==
    ClearPosition(MarketClose(CancelPending(Enter(m, "force_close_position"))))

\* safe_request, line 104: sys.exit(1) once force_close_position returned
SysExit(m) == IF m.ctl = "run" THEN [m EXCEPT !.ctl = "exit"] ELSE m

\* safe_request, lines 101-104; the call of force_close_position raises
\* RecursionError when the nesting has used up the stack
Fatal(m) ==
    IF m.depth >= MaxDepth
    THEN [m EXCEPT !.ctl = "raise"]
    ELSE SysExit(force_close_position([m EXCEPT !.depth = @ + 1,
                                                !.fatal_entries = @ + 1]))

FirstOk_Single(m) == IF Attempt(m, 1) THEN 1 ELSE 0

\* the attempt of safe_request that succeeds, 0 when all fail
FirstOk(m) ==
    IF \E i \in 1..MAX_ERROR_RETRIES : Attempt(m, i)
    THEN CHOOSE i \in 1..MAX_ERROR_RETRIES :
             Attempt(m, i) /\ \A j \in 1..(i - 1) : ~Attempt(m, j)
    ELSE 0

Record(m, req, ok) == [m EXCEPT !.out = Append(@, Logged(req, ok))]

\* safe_request, line 92: the attempts the loop made in this call
Tried(m, n) == [m EXCEPT !.attempts = Append(@, n)]

\* safe_request: up to MAX_ERROR_RETRIES attempts; when all fail,
\* force_close_position and sys.exit(1)
safe_request(m, req) ==
    IF FirstOk(m) > 0
    THEN Record(Tried(Serve(DropNet(m, FirstOk(m)), req), FirstOk(m)), req, TRUE)
    ELSE Fatal(Record(Tried(DropNet(m, MAX_ERROR_RETRIES), MAX_ERROR_RETRIES), req, FALSE))

(* --------------------------- fill polling ----------------------------- *)
OnFilled_SwappedStop(m, od) ==
    [m EXCEPT !.BOT_IN_TRADE = TRUE,
              !.current_position_side = od.side,
              !.entry_price = od.price,
              !.stop_loss_price = IF od.side = "buy"
                                  THEN od.price + STOP_LOSS_DISTANCE
                                  ELSE od.price - STOP_LOSS_DISTANCE,
              !.pending_order_id = NoOrder,
              !.pending_order_side = None]

OnFilled_KeepPending(m, od) ==
    [m EXCEPT !.BOT_IN_TRADE = TRUE,
              !.current_position_side = od.side,
              !.entry_price = od.price,
              !.stop_loss_price = IF od.side = "buy"
                                  THEN od.price - STOP_LOSS_DISTANCE
                                  ELSE od.price + STOP_LOSS_DISTANCE]

\* check_filled_orders, status "filled": open the position, drop the
\* pending order
OnFilled(m, od) ==
    [m EXCEPT !.BOT_IN_TRADE = TRUE,
              !.current_position_side = od.side,
              !.entry_price = od.price,
              !.stop_loss_price = IF od.side = "buy"
                                  THEN od.price - STOP_LOSS_DISTANCE
                                  ELSE od.price + STOP_LOSS_DISTANCE,
              !.pending_order_id = NoOrder,
              !.pending_order_side = None]

OnCancelled_Ignored(m) == m

\* check_filled_orders, status "cancelled" or "rejected"
OnCancelled(m) ==
    [m EXCEPT !.pending_order_id = NoOrder, !.pending_order_side = None]

\* whether the order list the venue returns has an entry with the pending id
Listed(m) == m.feed_listed /\ m.pending_order_id = m.order_count

\* check_filled_orders, lines 363-386: match the pending id in the response
MatchPending(m) ==
    IF m.ctl # "run" THEN m
    ELSE IF Listed(m)
    THEN IF m.last_order.status = "filled"
         THEN OnFilled([m EXCEPT !.matched = "filled"], m.last_order)
         ELSE IF m.last_order.status \in {"cancelled", "rejected"}
         THEN OnCancelled([m EXCEPT !.matched = m.last_order.status])
         ELSE [m EXCEPT !.matched = m.last_order.status]
    ELSE [m EXCEPT !.matched = "absent"]

\* check_filled_orders after its guard: query the order list and match the
\* pending id
PollOrders(m) ==
    MatchPending(safe_request(m, Request("list", None, NoPrice, 0, None, NoOrder)))

check_filled_orders_NoGuard(m) == PollOrders(Enter(m, "check_filled_orders"))

check_filled_orders(m) ==
    IF m.pending_order_id = NoOrder
    THEN Enter(m, "check_filled_orders")
    ELSE PollOrders(Enter(m, "check_filled_orders"))

(* -------------------------- signal and entry -------------------------- *)
\* check_strategy_conditions, lines 339-342 and 348-351: track the placed
\* order as the pending order
TrackEntry(m, side, trigger) ==
    IF m.ctl # "run" THEN m
    ELSE IF m.new_id # NoOrder
    THEN [m EXCEPT !.pending_order_id = m.new_id,
                   !.pending_order_side = side,
                   !.pending_trigger_price = trigger]
    ELSE m

\* check_strategy_conditions, lines 336-352
PlaceEntry(m, decision) ==
    IF decision.side = None THEN m
    ELSE TrackEntry(place_order(m, decision.side, decision.trigger, decision.trigger,
                                ORDER_SIZE, "stop_limit"),
                    decision.side, decision.trigger)

EvaluateEntry_NoActiveGate(m, candles) ==
    IF ~InSession
    THEN IF m.pending_order_id # NoOrder
         THEN ClearPending(cancel_order(m, m.pending_order_id))
         ELSE m
    ELSE IF m.BOT_IN_TRADE THEN m
    ELSE PlaceEntry([m EXCEPT !.seen_candles = candles], Signal(candles))

\* check_strategy_conditions after its entry in the observation
EvaluateEntry(m, candles) ==
    IF ~BOT_ACTIVE THEN m
    ELSE IF ~InSession
    THEN IF m.pending_order_id # NoOrder
         THEN ClearPending(cancel_order(m, m.pending_order_id))
         ELSE m
    ELSE IF m.BOT_IN_TRADE THEN m
    ELSE PlaceEntry([m EXCEPT !.seen_candles = candles], Signal(candles))

check_strategy_conditions(m, candles) ==
    EvaluateEntry(Enter(m, "check_strategy_conditions"), candles)

(* ---------------------------- stop engine ----------------------------- *)
Profit(m, latest_price) ==
    IF m.current_position_side = "buy"
    THEN latest_price - m.entry_price
    ELSE m.entry_price - latest_price

BreakEven_AtThreshold(m, profit) ==
    IF profit >= MIN_PROFIT_FOR_BREAKEVEN
    THEN IF m.current_position_side = "buy" /\ m.stop_loss_price < m.entry_price
         THEN [m EXCEPT !.stop_loss_price = m.entry_price + MIN_PROFIT_FOR_BREAKEVEN]
         ELSE IF m.current_position_side = "sell" /\ m.stop_loss_price > m.entry_price
         THEN [m EXCEPT !.stop_loss_price = m.entry_price - MIN_PROFIT_FOR_BREAKEVEN]
         ELSE m
    ELSE m

\* manage_position, lines 418-425: move the stop to break-even
BreakEven(m, profit) ==
    IF profit >= MIN_PROFIT_FOR_BREAKEVEN
    THEN IF m.current_position_side = "buy" /\ m.stop_loss_price < m.entry_price
         THEN [m EXCEPT !.stop_loss_price = m.entry_price]
         ELSE IF m.current_position_side = "sell" /\ m.stop_loss_price > m.entry_price
         THEN [m EXCEPT !.stop_loss_price = m.entry_price]
         ELSE m
    ELSE m

TrailStop_FromEntry(m, profit) ==
    IF profit > MIN_PROFIT_FOR_BREAKEVEN
    THEN IF TSL_STEP = 0 THEN [m EXCEPT !.ctl = "raise"]
         ELSE LET steps == FloorDiv(profit, TSL_STEP)
              IN  IF m.current_position_side = "buy"
                  THEN LET new_sl == m.entry_price + steps * TSL_STEP
                       IN  IF m.stop_loss_price < new_sl
                           THEN [m EXCEPT !.stop_loss_price = new_sl] ELSE m
                  ELSE LET new_sl == m.entry_price - steps * TSL_STEP
                       IN  IF m.stop_loss_price > new_sl
                           THEN [m EXCEPT !.stop_loss_price = new_sl] ELSE m
    ELSE m

TrailStop_NoRatchet(m, profit) ==
    IF profit > MIN_PROFIT_FOR_BREAKEVEN
    THEN IF TSL_STEP = 0 THEN [m EXCEPT !.ctl = "raise"]
         ELSE LET steps == FloorDiv(profit - MIN_PROFIT_FOR_BREAKEVEN, TSL_STEP)
              IN  IF m.current_position_side = "buy"
                  THEN [m EXCEPT !.stop_loss_price = m.entry_price + steps * TSL_STEP]
                  ELSE [m EXCEPT !.stop_loss_price = m.entry_price - steps * TSL_STEP]
    ELSE m

\* manage_position, lines 427-438: the stepwise trailing stop; the floor
\* division by a zero TSL_STEP raises ZeroDivisionError
TrailStop(m, profit) ==
    IF profit > MIN_PROFIT_FOR_BREAKEVEN
    THEN IF TSL_STEP = 0 THEN [m EXCEPT !.ctl = "raise"]
         ELSE LET steps == FloorDiv(profit - MIN_PROFIT_FOR_BREAKEVEN, TSL_STEP)
              IN  IF m.current_position_side = "buy"
                  THEN LET new_sl == m.entry_price + steps * TSL_STEP
                       IN  IF m.stop_loss_price < new_sl
                           THEN [m EXCEPT !.stop_loss_price = new_sl] ELSE m
                  ELSE LET new_sl == m.entry_price - steps * TSL_STEP
                       IN  IF m.stop_loss_price > new_sl
                           THEN [m EXCEPT !.stop_loss_price = new_sl] ELSE m
    ELSE m

\* manage_position, lines 444-446 and 455-457
CancelStray(m) ==
    IF m.ctl # "run" THEN m
    ELSE IF m.pending_order_id # NoOrder
    THEN IF cancel_order(m, m.pending_order_id).ctl # "run"
         THEN cancel_order(m, m.pending_order_id)
         ELSE [cancel_order(m, m.pending_order_id) EXCEPT !.pending_order_id = NoOrder]
    ELSE m

\* manage_position, lines 440-461: exit with a market order when the stop
\* is hit
StopExit(m, latest_price) ==
    IF m.ctl # "run" THEN m
    ELSE IF (m.current_position_side = "buy" /\ latest_price <= m.stop_loss_price)
            \/ (m.current_position_side = "sell" /\ latest_price >= m.stop_loss_price)
    THEN ClearPosition(CancelStray(
             place_order(m, IF m.current_position_side = "buy" THEN "sell" ELSE "buy",
                         latest_price, latest_price, ORDER_SIZE, "market")))
    ELSE m

\* manage_position, lines 412-461
StopEngine(m, latest_price) ==
    StopExit(TrailStop(BreakEven(m, Profit(m, latest_price)), Profit(m, latest_price)),
             latest_price)

OnPrice_NoGuard(m) ==
    StopEngine([m EXCEPT !.latest_price = get_latest_price(m)], get_latest_price(m))

\* manage_position, lines 408-461: the answer of get_latest_price arrives
OnPrice(m) ==
    IF get_latest_price(m) = NoPrice THEN m
    ELSE StopEngine([m EXCEPT !.latest_price = get_latest_price(m)],
                    get_latest_price(m))

\* manage_position, lines 399-410
ManageOpen(m) ==
    IF m.ctl # "run" THEN m
    ELSE IF ~m.BOT_IN_TRADE THEN m
    ELSE IF ~InSession THEN force_close_position(m)
    ELSE OnPrice(m)

manage_position(m) == ManageOpen(check_filled_orders(Enter(m, "manage_position")))

(* ------------------------------ actions ------------------------------- *)
\* Inputs of a handler.  The answer of an endpoint is drawn only in the
\* states in which the handler can query it: the latest price when a
\* position exists or can appear from the pending order, the order list
\* when an order is pending; while the entry gate is closed a failed fetch
\* and one signal window stand for all windows.
AllOk == [i \in 1..MaxNet |-> TRUE]
NetInputs ==
    IF BOT_IN_TRADE \/ pending_order_id # NoOrder \/ (BOT_ACTIVE /\ InSession)
    THEN [1..MaxNet -> BOOLEAN] \X BOOLEAN
    ELSE {<<AllOk, TRUE>>}
\* outside manage_position the latest price is only fetched by
\* force_close_position, which sends a market order if there is one: one
\* price stands for all
PriceInputs ==
    IF BOT_IN_TRADE THEN {NoPrice, 125} ELSE {NoPrice}
\* check_filled_orders, manage_position and force_close_position make no
\* outbound call without a pending order or a position
NetInputsHeld ==
    IF BOT_IN_TRADE \/ pending_order_id # NoOrder
    THEN [1..MaxNet -> BOOLEAN] \X BOOLEAN
    ELSE {<<AllOk, TRUE>>}
PriceInputsAfterFill ==
    IF BOT_IN_TRADE \/ pending_order_id # NoOrder
    THEN LatestPrices \cup {NoPrice} ELSE {NoPrice}
CandleInputs ==
    IF BOT_IN_TRADE THEN {NoCandles}
    ELSE IF BOT_ACTIVE /\ InSession THEN CandleFeeds
    ELSE {NoCandles, BuyWindow}
ListInputs == IF pending_order_id # NoOrder THEN BOOLEAN ELSE {TRUE}

\* a handler returns (or raises, or exits): its effects become the state
Commit(m, name) ==
    /\ m.order_count <= MaxOrders
    /\ BOT_IN_TRADE' = m.BOT_IN_TRADE
    /\ current_position_side' = m.current_position_side
    /\ entry_price' = m.entry_price
    /\ stop_loss_price' = m.stop_loss_price
    /\ pending_order_id' = m.pending_order_id
    /\ pending_order_side' = m.pending_order_side
    /\ pending_trigger_price' = m.pending_trigger_price
    /\ order_count' = m.order_count
    /\ last_order' = m.last_order
    /\ op' = name
    /\ called' = m.called
    /\ out' = m.out
    /\ fatal_entries' = m.fatal_entries
    /\ ctl' = m.ctl
    /\ seen_price' = m.latest_price
    /\ seen_candles' = m.seen_candles
    /\ matched' = m.matched

\* a step of the environment carries no observation of a handler
Unobserved ==
    /\ op' = "env"
    /\ called' = <<>>
    /\ out' = <<>>
    /\ fatal_entries' = 0
    /\ ctl' = "run"
    /\ sje_ret' = FALSE
    /\ seen_price' = NoPrice
    /\ seen_candles' = NoCandles
    /\ matched' = "unqueried"
    /\ UNCHANGED hist_in_session

CheckStrategyConditions ==
    /\ ~halted
    /\ \E net \in NetInputs, price \in PriceInputs, candles \in CandleInputs :
          Commit(check_strategy_conditions(Machine(net[1], net[2], price, TRUE), candles),
                 "check_strategy_conditions")
    /\ sje_ret' = FALSE
    /\ UNCHANGED <<config, session_was_active, utc_now, hist_in_session, check_due, tick, retry>>

CheckFilledOrders ==
    /\ ~halted
    /\ \E net \in NetInputsHeld, price \in PriceInputs, listed \in ListInputs :
          Commit(check_filled_orders(Machine(net[1], net[2], price, listed)),
                 "check_filled_orders")
    /\ sje_ret' = FALSE
    /\ UNCHANGED <<config, session_was_active, utc_now, hist_in_session, check_due, tick, retry>>

ManagePosition ==
    /\ ~halted
    /\ \E net \in NetInputsHeld, price \in PriceInputsAfterFill, listed \in ListInputs :
          Commit(manage_position(Machine(net[1], net[2], price, listed)),
                 "manage_position")
    /\ sje_ret' = FALSE
    /\ UNCHANGED <<config, session_was_active, utc_now, hist_in_session, check_due, tick, retry>>

ForceClosePosition ==
    /\ ~halted
    /\ \E net \in NetInputsHeld, price \in PriceInputs :
          Commit(force_close_position(Machine(net[1], net[2], price, TRUE)),
                 "force_close_position")
    /\ sje_ret' = FALSE
    /\ UNCHANGED <<config, session_was_active, utc_now, hist_in_session, check_due, tick, retry>>

SessionJustEnded ==
    /\ ~halted
    /\ LET r == session_just_ended(session_was_active, InSession)
       IN  /\ session_was_active' = r.was_active
           /\ sje_ret' = r.ended
    /\ hist_in_session' = InSession
    /\ op' = "session_just_ended"
    /\ called' = <<>>
    /\ out' = <<>>
    /\ fatal_entries' = 0
    /\ ctl' = "run"
    /\ seen_price' = NoPrice
    /\ seen_candles' = NoCandles
    /\ matched' = "unqueried"
    /\ UNCHANGED <<config, controller, utc_now, venue, check_due, tick, retry>>

\* the names worker.py binds with "from app import ..." when it starts;
\* assignments to app's globals do not rebind them
worker_BOT_ACTIVE == TRUE
worker_BOT_IN_TRADE == FALSE
worker_pending_order_id == NoOrder

\* worker.main, line 43
SignalBranch == ~worker_BOT_IN_TRADE /\ worker_pending_order_id = NoOrder

\* worker.main, lines 49-50
ShortCadence(m) == IF m.ctl # "run" THEN m ELSE manage_position(m)

\* worker.main, lines 40-50
Dispatch(m, candles) ==
    IF ~worker_BOT_ACTIVE \/ m.ctl # "run" THEN m
    ELSE IF SignalBranch
    THEN IF check_due THEN check_strategy_conditions(m, candles) ELSE m
    ELSE ShortCadence(check_filled_orders(m))

\* worker.main, lines 28-50
Iteration(m, ended, candles) ==
    Dispatch(IF ended THEN force_close_position(m) ELSE m, candles)

\* last_condition_check = now, reached when check_strategy_conditions
\* returned
Checked(m) == worker_BOT_ACTIVE /\ SignalBranch /\ check_due /\ m.ctl = "run"

EndIteration(m, sje) ==
    /\ Commit(m, "worker_tick")
    /\ session_was_active' = sje.was_active
    /\ sje_ret' = sje.ended
    /\ check_due' = IF Checked(m) THEN FALSE ELSE check_due

\* one iteration of worker.main; an exception other than SystemExit is
\* caught and the loop goes on
WorkerTick ==
    /\ ~halted
    /\ \E net \in NetInputs, price \in PriceInputsAfterFill,
          candles \in CandleInputs, listed \in ListInputs :
          EndIteration(Iteration(Machine(net[1], net[2], price, listed),
                                 session_just_ended(session_was_active, InSession).ended,
                                 candles),
                       session_just_ended(session_was_active, InSession))
    /\ hist_in_session' = InSession
    /\ UNCHANGED <<config, utc_now, tick, retry>>

\* a write of the configuration while a manage_position is suspended adds
\* a configuration to those the tick has run under
ConfigWritten ==
    /\ pc = "fetching" => Cardinality(tick_versions) <= MaxWrites
    /\ tick_versions' = IF pc = "fetching"
                        THEN tick_versions \cup {config'}
                        ELSE tick_versions
    /\ UNCHANGED <<pc, tick_reads, retry>>

\* post_control_panel writes every tunable
PostControlPanel ==
    /\ ~halted
    /\ BOT_ACTIVE' \in BOOLEAN
    /\ ORDER_SIZE' \in OrderSizes
    /\ STOP_LOSS_DISTANCE' \in StopDistances
    /\ TSL_STEP' \in TrailSteps
    /\ TRADING_SESSION_START' \in SessionStarts
    /\ TRADING_SESSION_END' \in SessionEnds
    /\ Unobserved
    /\ ConfigWritten
    /\ UNCHANGED <<controller, session_was_active, utc_now, venue, check_due>>

\* control_json writes the tunables named in the request; a tunable that
\* is not named keeps its value
ControlJson ==
    /\ ~halted
    /\ BOT_ACTIVE' \in BOOLEAN \cup {BOT_ACTIVE}
    /\ ORDER_SIZE' \in OrderSizes \cup {ORDER_SIZE}
    /\ STOP_LOSS_DISTANCE' \in StopDistances \cup {STOP_LOSS_DISTANCE}
    /\ TSL_STEP' \in TrailSteps \cup {TSL_STEP}
    /\ TRADING_SESSION_START' \in SessionStarts \cup {TRADING_SESSION_START}
    /\ TRADING_SESSION_END' \in SessionEnds \cup {TRADING_SESSION_END}
    /\ Unobserved
    /\ ConfigWritten
    /\ UNCHANGED <<controller, session_was_active, utc_now, venue, check_due>>

\* the venue fills an open order at its price
VenueFill ==
    /\ ~halted
    /\ last_order.status = "open"
    /\ last_order' = [last_order EXCEPT !.status = "filled"]
    /\ Unobserved
    /\ UNCHANGED <<config, controller, session_was_active, utc_now, order_count,
                   check_due, tick, retry>>

\* the venue cancels or rejects an open order
VenueReject ==
    /\ ~halted
    /\ last_order.status = "open"
    /\ \E st \in {"cancelled", "rejected"} :
          last_order' = [last_order EXCEPT !.status = st]
    /\ Unobserved
    /\ UNCHANGED <<config, controller, session_was_active, utc_now, order_count,
                   check_due, tick, retry>>

\* time passes: another time of day, and the signal interval may elapse
ClockAdvance ==
    /\ ~halted
    /\ utc_now' \in ClockTimes
    /\ check_due' \in {check_due, TRUE}
    /\ Unobserved
    /\ UNCHANGED <<config, controller, session_was_active, venue, tick, retry>>

(* ---------------------------- specifications -------------------------- *)
Init ==
    /\ BOT_ACTIVE = TRUE
    /\ ORDER_SIZE = 1
    /\ STOP_LOSS_DISTANCE = 25
    /\ TSL_STEP = 10
    /\ TRADING_SESSION_START = 480
    /\ TRADING_SESSION_END = 300
    /\ BOT_IN_TRADE = FALSE
    /\ current_position_side = None
    /\ entry_price = NoPrice
    /\ stop_loss_price = NoPrice
    /\ pending_order_id = NoOrder
    /\ pending_order_side = None
    /\ pending_trigger_price = NoPrice
    /\ session_was_active = FALSE
    /\ utc_now \in ClockTimes
    /\ order_count = 0
    /\ last_order = [side |-> None, price |-> NoPrice, quantity |-> 0, status |-> "none"]
    /\ op = "init"
    /\ called = <<>>
    /\ out = <<>>
    /\ fatal_entries = 0
    /\ ctl = "run"
    /\ sje_ret = FALSE
    /\ hist_in_session = FALSE
    /\ seen_price = NoPrice
    /\ seen_candles = NoCandles
    /\ matched = "unqueried"
    /\ check_due = TRUE
    /\ pc = "idle"
    /\ tick_reads = NoReads
    /\ tick_versions = {}
    /\ call_in = NoInputs
    /\ attempts = <<>>

\* the controller functions of app.py called in any order
Next ==
    \/ CheckStrategyConditions
    \/ CheckFilledOrders
    \/ ManagePosition
    \/ ForceClosePosition
    \/ SessionJustEnded
    \/ PostControlPanel
    \/ ControlJson
    \/ VenueFill
    \/ VenueReject
    \/ ClockAdvance

Spec == Init /\ [][Next]_vars

\* the controller driven by the loop of worker.py
WorkerNext ==
    \/ WorkerTick
    \/ PostControlPanel
    \/ ControlJson
    \/ VenueFill
    \/ VenueReject
    \/ ClockAdvance

WorkerSpec == Init /\ [][WorkerNext]_vars

(* ------------- the session gate over a grid of times of day ----------- *)
GridTimes == {(i * MinutesPerDay) \div GridPoints : i \in 0..(GridPoints - 1)}
\* IST times of day: the grid, 05:00, 08:00, and 23:00, 04:00, 06:00, 07:59
SessionGrid == GridTimes \cup {300, 480}
IstInstants == SessionGrid \cup {1380, 240, 360, 479}
UtcInstants == {(t + MinutesPerDay - IstOffset) % MinutesPerDay : t \in IstInstants}

SessionInit ==
    /\ BOT_ACTIVE = TRUE
    /\ ORDER_SIZE = 1
    /\ STOP_LOSS_DISTANCE = 25
    /\ TSL_STEP = 10
    /\ TRADING_SESSION_START \in SessionGrid
    /\ TRADING_SESSION_END \in SessionGrid
    /\ BOT_IN_TRADE = FALSE
    /\ current_position_side = None
    /\ entry_price = NoPrice
    /\ stop_loss_price = NoPrice
    /\ pending_order_id = NoOrder
    /\ pending_order_side = None
    /\ pending_trigger_price = NoPrice
    /\ session_was_active = FALSE
    /\ utc_now \in UtcInstants
    /\ order_count = 0
    /\ last_order = [side |-> None, price |-> NoPrice, quantity |-> 0, status |-> "none"]
    /\ op = "init"
    /\ called = <<>>
    /\ out = <<>>
    /\ fatal_entries = 0
    /\ ctl = "run"
    /\ sje_ret = FALSE
    /\ hist_in_session = FALSE
    /\ seen_price = NoPrice
    /\ seen_candles = NoCandles
    /\ matched = "unqueried"
    /\ check_due = TRUE
    /\ pc = "idle"
    /\ tick_reads = NoReads
    /\ tick_versions = {}
    /\ call_in = NoInputs
    /\ attempts = <<>>

\* control_json with a session_start or a session_end
ControlJsonSession ==
    /\ \E t \in SessionGrid :
          \/ TRADING_SESSION_START' = t /\ UNCHANGED TRADING_SESSION_END
          \/ TRADING_SESSION_END' = t /\ UNCHANGED TRADING_SESSION_START
    /\ Unobserved
    /\ UNCHANGED <<BOT_ACTIVE, ORDER_SIZE, STOP_LOSS_DISTANCE, TSL_STEP, controller,
                   session_was_active, utc_now, venue, check_due, tick, retry>>

GridClock ==
    /\ utc_now' \in UtcInstants
    /\ Unobserved
    /\ UNCHANGED <<config, controller, session_was_active, venue, check_due, tick, retry>>

SessionNext ==
    \/ SessionJustEnded
    \/ ControlJsonSession
    \/ GridClock

SessionSpec == SessionInit /\ [][SessionNext]_vars

(* ------- manage_position with its suspension in get_latest_price ----- *)
\* manage_position, lines 397-398: check_filled_orders has returned
FillsChecked(net, listed, price) ==
    check_filled_orders(Enter(Machine(net[1], net[2], price, listed), "manage_position"))

\* manage_position reaches the request of get_latest_price (line 408): a
\* position is open and the session is active
AwaitsPrice(m) == m.ctl = "run" /\ m.BOT_IN_TRADE /\ InSession

\* the tunables manage_position has read when it reaches line 408:
\* STOP_LOSS_DISTANCE if check_filled_orders found a fill, and the session
\* window
ReadsAtFetch(m) ==
    [stop_loss_distance |-> IF m.matched = "filled" THEN STOP_LOSS_DISTANCE ELSE 0,
     session_start |-> TRADING_SESSION_START,
     session_end |-> TRADING_SESSION_END]

\* manage_position up to the request of get_latest_price, where it blocks
\* (up to the timeout of the request) while other threads run; a call that
\* does not reach the request runs to its end
Suspend(m) ==
    IF AwaitsPrice(m)
    THEN /\ Commit(m, "get_latest_price")
         /\ pc' = "fetching"
         /\ tick_reads' = ReadsAtFetch(m)
         /\ tick_versions' = {config}
    ELSE /\ Commit(ManageOpen(m), "manage_position")
         /\ UNCHANGED tick

ManagePositionBegin ==
    /\ ~halted
    /\ pc = "idle"
    /\ \E net \in NetInputsHeld, price \in PriceInputsAfterFill, listed \in ListInputs :
          Suspend(FillsChecked(net, listed, price))
    /\ sje_ret' = FALSE
    /\ UNCHANGED <<config, session_was_active, utc_now, hist_in_session, check_due,
                   retry>>

\* the answer of get_latest_price arrives and manage_position runs on, from
\* line 409 to its end, reading the globals as they are now
ManagePositionResume ==
    /\ ~halted
    /\ pc = "fetching"
    /\ \E net \in NetInputsHeld, price \in LatestPrices \cup {NoPrice} :
          Commit(OnPrice(Enter(Machine(net[1], net[2], price, TRUE), "manage_position")),
                 "manage_position")
    /\ pc' = "idle"
    /\ tick_reads' = NoReads
    /\ tick_versions' = {}
    /\ sje_ret' = FALSE
    /\ UNCHANGED <<config, session_was_active, utc_now, hist_in_session, check_due,
                   retry>>

\* the driver thread runs check_strategy_conditions and manage_position;
\* the operator interface and the venue act at any time, also while
\* manage_position is suspended
TickNext ==
    \/ (pc = "idle" /\ CheckStrategyConditions)
    \/ ManagePositionBegin
    \/ ManagePositionResume
    \/ ControlJson
    \/ VenueFill

TickSpec == Init /\ [][TickNext]_vars

(* ------------- the signal evaluation over a grid of windows ----------- *)
\* what the candle endpoint answers: any window of the grid at first, and
\* after a fetch the same closed candles with another latest candle
NextWindows ==
    IF seen_candles = NoCandles THEN SignalWindows
    ELSE {SubSeq(seen_candles, 1, Len(seen_candles) - 1) \o <<c1>> : c1 \in TailCandles}

\* check_strategy_conditions with the candle endpoint answering a window of
\* the grid
SignalEvaluate ==
    /\ ~halted
    /\ \E net \in NetInputs, candles \in NextWindows :
          Commit(check_strategy_conditions(Machine(net[1], net[2], NoPrice, TRUE), candles),
                 "check_strategy_conditions")
    /\ sje_ret' = FALSE
    /\ UNCHANGED <<config, session_was_active, utc_now, hist_in_session, check_due, tick, retry>>

SignalNext == SignalEvaluate

SignalSpec == Init /\ [][SignalNext]_vars

(* --------------- the handlers with their inputs observed -------------- *)
\* the inputs of a handler call
Inputs(net, price, listed, candles) ==
    [net |-> net[1], tail |-> net[2], price |-> price, listed |-> listed,
     candles |-> candles]

\* the handler named fn run on the inputs in
Handle(fn, in) ==
    IF fn = "check_strategy_conditions"
    THEN check_strategy_conditions(Machine(in.net, in.tail, in.price, in.listed),
                                   in.candles)
    ELSE IF fn = "manage_position"
    THEN manage_position(Machine(in.net, in.tail, in.price, in.listed))
    ELSE force_close_position(Machine(in.net, in.tail, in.price, in.listed))

\* a handler returns: its effects become the state, and its inputs and the
\* attempts of its outbound calls are observed
ObservedCall(fn, in) ==
    /\ ~halted
    /\ Commit(Handle(fn, in), fn)
    /\ call_in' = in
    /\ attempts' = Handle(fn, in).attempts
    /\ sje_ret' = FALSE
    /\ UNCHANGED <<config, session_was_active, utc_now, hist_in_session, check_due, tick>>

RetryWindows == IF BOT_IN_TRADE THEN {NoCandles} ELSE {NoCandles, BuyWindow, SellWindow}

RetryCheckStrategyConditions ==
    \E net \in NetInputs, candles \in RetryWindows :
        ObservedCall("check_strategy_conditions", Inputs(net, NoPrice, TRUE, candles))

RetryManagePosition ==
    \E net \in NetInputsHeld, price \in PriceInputs, listed \in ListInputs :
        ObservedCall("manage_position", Inputs(net, price, listed, NoCandles))

RetryForceClosePosition ==
    \E net \in NetInputsHeld, price \in PriceInputs :
        ObservedCall("force_close_position", Inputs(net, price, TRUE, NoCandles))

RetryNext ==
    \/ RetryCheckStrategyConditions
    \/ RetryManagePosition
    \/ RetryForceClosePosition
    \/ VenueFill
    \/ VenueReject
    \/ ClockAdvance

RetrySpec == Init /\ [][RetryNext]_vars

(* ------------------------------ properties ---------------------------- *)
\* some outbound call of the last step failed on every attempt
Exhausted == \E i \in 1..Len(out) : ~out[i].ok

Opposite(side) == IF side = "buy" THEN "sell" ELSE "buy"

\* C1 (mutual exclusion): a pending order and an open position are never
\* both present.
C1_MutualExclusion == ~(pending_order_id # NoOrder /\ BOT_IN_TRADE)

\* a fill has just turned the pending order into the position
C1_Witness ==
    /\ op \in {"check_filled_orders", "manage_position"}
    /\ BOT_IN_TRADE
    /\ pending_order_id = NoOrder
    /\ Len(out) = 1 /\ out[1].call = "list" /\ out[1].ok

\* C2 (stop monotonicity): while a position is held, every step leaves the
\* stop of a long position at or above, and the stop of a short position at
\* or below, its previous value.
C2_StopMonotone ==
    [][(BOT_IN_TRADE /\ BOT_IN_TRADE')
         => /\ (current_position_side = "buy" => stop_loss_price' >= stop_loss_price)
            /\ (current_position_side = "sell" => stop_loss_price' <= stop_loss_price)]_vars

\* a long position whose stop has trailed above the entry price
C2_Witness ==
    /\ op = "manage_position"
    /\ BOT_IN_TRADE
    /\ current_position_side = "buy"
    /\ stop_loss_price > entry_price

\* C3 (fatal path): when a call has failed on every attempt,
\* force_close_position was entered exactly once by the retry layer and the
\* process has exited.
C3_FatalPath == Exhausted => (fatal_entries = 1 /\ halted)

\* C4 (termination after a failed flatten): when a call has failed on every
\* attempt the process has exited, whatever the calls of the flatten did.
C4_ExitAfterFailedFlatten == Exhausted => halted

\* C5 (one outstanding intent): a step that places an entry order starts
\* with no pending order.
C5_OneOutstandingIntent ==
    [][(\E i \in 1..Len(out') : /\ out'[i].call = "place"
                                 /\ out'[i].order_type = "stop_limit"
                                 /\ out'[i].ok)
         => pending_order_id = NoOrder]_vars

\* C6 (no position dropped unflattened): a step that clears an open
\* position has submitted a market order on the opposite side.
C6_ExitSubmitted ==
    [][(BOT_IN_TRADE /\ ~BOT_IN_TRADE')
         => \E i \in 1..Len(out') :
               /\ out'[i].call = "place"
               /\ out'[i].order_type = "market"
               /\ out'[i].side = Opposite(current_position_side)]_vars

\* C7 (short-cadence management): an iteration of the driver loop that
\* begins with a pending order or an open position, and ends normally, has
\* run check_filled_orders and manage_position.
C7_ShortCadence ==
    [][(op' = "worker_tick" /\ ctl' = "run"
        /\ (pending_order_id # NoOrder \/ BOT_IN_TRADE))
         => \E i, j \in 1..Len(called') :
               called'[i] = "check_filled_orders" /\ called'[j] = "manage_position"]_vars

\* C8 (edge-triggered session end): in every iteration of the driver loop
\* session_just_ended returns true exactly when the session was active at
\* the previous iteration and is not active now.
C8_EdgeTriggered ==
    [][op' = "worker_tick" => (sje_ret' = (hist_in_session /\ ~InSession))]_vars

\* an iteration in which the edge was reported
C8_Witness == op = "worker_tick" /\ sje_ret /\ ~session_was_active

\* the reference rule of the session window, in the reference timezone
ReferenceInSession(now, start, end) ==
    IF end < start THEN (now >= start \/ now < end) ELSE (start <= now /\ now < end)

IstNow == (utc_now + IstOffset) % MinutesPerDay

\* C9 (session membership): the membership is_in_trading_session computes
\* after the shift to UTC equals the reference rule on the IST times; for
\* 08:00-05:00 it is true at 23:00 and 04:00 and false at 06:00 and 07:59.
C9_SessionMembership ==
    op = "session_just_ended"
      => /\ session_was_active
              = ReferenceInSession(IstNow, TRADING_SESSION_START, TRADING_SESSION_END)
         /\ (TRADING_SESSION_START = 480 /\ TRADING_SESSION_END = 300)
              => /\ IstNow \in {1380, 240} => session_was_active
                 /\ IstNow \in {360, 479} => ~session_was_active

\* the window 08:00-05:00 probed at 04:00 IST, after midnight
C9_Witness ==
    /\ op = "session_just_ended"
    /\ TRADING_SESSION_START = 480 /\ TRADING_SESSION_END = 300
    /\ IstNow = 240
    /\ session_was_active

\* C10 (idempotent fill polling): check_filled_orders called with no
\* pending order changes no controller state and makes no outbound call.
C10_IdempotentPolling ==
    [][(op' = "check_filled_orders" /\ pending_order_id = NoOrder)
         => /\ UNCHANGED <<controller, venue, session_was_active>>
            /\ out' = <<>>
            /\ ctl' = "run"]_vars

\* check_filled_orders has returned without a call while a position is open
C10_Witness ==
    /\ op = "check_filled_orders"
    /\ out = <<>>
    /\ BOT_IN_TRADE

\* the controller has no pending order and no open position
Idle == pending_order_id = NoOrder /\ ~BOT_IN_TRADE

\* an entry order was requested in the step that ends in the primed state
EntryRequested ==
    \E i \in 1..Len(out') : out'[i].call = "place" /\ out'[i].order_type = "stop_limit"

\* C11 (entry gating): an iteration of the driver loop that runs while the
\* bot is flagged inactive, or outside the session, requests no entry order,
\* and leaves a controller with no pending order and no position that way.
C11_EntryGating ==
    [][(op' = "worker_tick" /\ (~BOT_ACTIVE \/ ~InSession))
         => /\ ~EntryRequested
            /\ (Idle => Idle')]_vars

\* an iteration in session that called check_strategy_conditions while the
\* bot was flagged inactive
C11_Witness ==
    /\ op = "worker_tick"
    /\ ~BOT_ACTIVE
    /\ InSession
    /\ \E i \in 1..Len(called) : called[i] = "check_strategy_conditions"
    /\ out = <<>>
    /\ Idle

\* a long position entered at 100 is held in session with a trail step of
\* 10 (the break-even threshold is MIN_PROFIT_FOR_BREAKEVEN = 25), and the
\* step is a manage_position that obtained the latest price 100 + profit
LongExampleStep(profit) ==
    /\ BOT_IN_TRADE
    /\ current_position_side = "buy"
    /\ entry_price = 100
    /\ TSL_STEP = 10
    /\ op' = "manage_position"
    /\ seen_price' = 100 + profit

\* C12 as stated (stop example): from a stop below 100, profit 20 leaves
\* the stop unchanged and profit 30 sets it to 100; from the stop 100,
\* profit 45 sets it to 110.
C12_StopExample ==
    [][/\ (LongExampleStep(20) /\ stop_loss_price < 100)
            => stop_loss_price' = stop_loss_price
       /\ (LongExampleStep(30) /\ stop_loss_price < 100)
            => stop_loss_price' = 100
       /\ (LongExampleStep(45) /\ stop_loss_price = 100)
            => stop_loss_price' = 110]_vars

\* C12 as amended (stop example): from a stop below 100, profit 20 leaves
\* the stop unchanged and profit 30 sets it to 100; from the stop 100,
\* profit 45 sets it to 120, two trail steps above the entry price.
C12_StopExampleAmended ==
    [][/\ (LongExampleStep(20) /\ stop_loss_price < 100)
            => stop_loss_price' = stop_loss_price
       /\ (LongExampleStep(30) /\ stop_loss_price < 100)
            => stop_loss_price' = 100
       /\ (LongExampleStep(45) /\ stop_loss_price = 100)
            => stop_loss_price' = 120]_vars

\* the long position of the example after the price 145 was seen
C12_Witness ==
    /\ op = "manage_position"
    /\ seen_price = 145
    /\ BOT_IN_TRADE
    /\ current_position_side = "buy"
    /\ entry_price = 100
    /\ TSL_STEP = 10
    /\ stop_loss_price = 120

\* the entry order the last step requested: its side and its trigger price
ObservedDecision ==
    IF out # <<>> /\ out[1].call = "place" /\ out[1].order_type = "stop_limit"
    THEN [side |-> out[1].side, trigger |-> out[1].price]
    ELSE [side |-> None, trigger |-> 0]

\* (high + low + close) * volume of candle k of w, 0 before the window
RefTerm(w, k) ==
    IF k < 1 THEN 0 ELSE (w[k].high + w[k].low + w[k].close) * w[k].vol
RefVolume(w, k) == IF k < 1 THEN 0 ELSE w[k].vol

\* three times the sum of typical price times volume, and the volume, of
\* the last five candles of w
RefTpv3(w) ==
    RefTerm(w, Len(w)) + RefTerm(w, Len(w) - 1) + RefTerm(w, Len(w) - 2)
    + RefTerm(w, Len(w) - 3) + RefTerm(w, Len(w) - 4)
RefVol(w) ==
    RefVolume(w, Len(w)) + RefVolume(w, Len(w) - 1) + RefVolume(w, Len(w) - 2)
    + RefVolume(w, Len(w) - 3) + RefVolume(w, Len(w) - 4)

\* the decision rule: both closes above the VWAP and a bullish colour at
\* [-2] is a buy at the high of [-2]; both below and bearish is a sell at
\* its low
RefDecision(w) ==
    LET c2 == w[Len(w) - 1]
        c3 == w[Len(w) - 2]
        color == compute_supertrend(w)[Len(w) - 1]
    IN  IF 3 * c3.close * RefVol(w) > RefTpv3(w) /\ 3 * c2.close * RefVol(w) > RefTpv3(w)
           /\ color = "green"
        THEN [side |-> "buy", trigger |-> c2.high]
        ELSE IF 3 * c3.close * RefVol(w) < RefTpv3(w)
                /\ 3 * c2.close * RefVol(w) < RefTpv3(w) /\ color = "red"
        THEN [side |-> "sell", trigger |-> c2.low]
        ELSE [side |-> None, trigger |-> 0]

\* the step is a signal evaluation: check_strategy_conditions ran with the
\* bot active, in session and without a position
EvaluationStep ==
    /\ op' = "check_strategy_conditions"
    /\ BOT_ACTIVE /\ InSession /\ ~BOT_IN_TRADE

\* C13 (signal decision rule): an evaluation of a window of at least 4
\* candles with a defined VWAP requests the entry order the decision rule
\* gives for that window, side and trigger price, and none when the rule
\* gives none.
C13_SignalRule ==
    [][(EvaluationStep /\ Len(seen_candles') >= 4 /\ RefVol(seen_candles') # 0)
         => ObservedDecision' = RefDecision(seen_candles')]_vars

\* a buy entry requested at the high of candle [-2] of a ten-candle window
C13_Witness ==
    /\ op = "check_strategy_conditions"
    /\ Len(seen_candles) = 10
    /\ ObservedDecision = [side |-> "buy", trigger |-> seen_candles[9].high]
    /\ pending_order_side = "buy"
    /\ pending_trigger_price = seen_candles[9].high

\* the window without its latest candle
ClosedCandles(w) == SubSeq(w, 1, Len(w) - 1)

\* C20 (in-progress candle excluded): two consecutive evaluations whose
\* windows differ at most in the latest candle request the same entry
\* order, side and trigger price, or both none.
C20_LatestCandleExcluded ==
    [][(/\ op = "check_strategy_conditions"
        /\ EvaluationStep
        /\ Len(seen_candles) >= 4
        /\ Len(seen_candles') = Len(seen_candles)
        /\ ClosedCandles(seen_candles') = ClosedCandles(seen_candles))
         => ObservedDecision' = ObservedDecision]_vars

\* C14 (session-end flatten): after an iteration of the driver loop in
\* which session_just_ended returned true, with the bot flagged active or
\* inactive, the controller has no pending order and no position.
C14_SessionEndFlatten == (op = "worker_tick" /\ sje_ret) => Idle

\* C15 (fill transition): a check_filled_orders that finds the pending id
\* in the order list with status filled leaves an open position with the
\* reported side, the reported price as entry price, the stop at entry
\* minus STOP_LOSS_DISTANCE for a buy and entry plus it for a sell, and no
\* pending order.
C15_FillTransition ==
    [][(op' = "check_filled_orders" /\ matched' = "filled")
         => /\ BOT_IN_TRADE'
            /\ current_position_side' = last_order.side
            /\ entry_price' = last_order.price
            /\ stop_loss_price' = IF last_order.side = "buy"
                                  THEN last_order.price - STOP_LOSS_DISTANCE
                                  ELSE last_order.price + STOP_LOSS_DISTANCE
            /\ pending_order_id' = NoOrder
            /\ pending_order_side' = None]_vars

\* a filled sell order has become a short position
C15_Witness ==
    /\ op = "check_filled_orders"
    /\ matched = "filled"
    /\ BOT_IN_TRADE
    /\ current_position_side = "sell"
    /\ stop_loss_price = entry_price + STOP_LOSS_DISTANCE

\* a cancel request was sent in the step that ends in the primed state
CancelRequested == \E i \in 1..Len(out') : out'[i].call = "cancel"

\* C16 (pending resolution by the venue): a check_filled_orders that finds
\* the pending id with status cancelled or rejected clears the pending
\* order and leaves no position; one that does not find the id, or finds
\* it open, changes no pending or position state and sends no cancel.
C16_PendingResolution ==
    [][op' = "check_filled_orders"
         => /\ matched' \in {"cancelled", "rejected"}
                 => /\ pending_order_id' = NoOrder
                    /\ pending_order_side' = None
                    /\ ~BOT_IN_TRADE'
                    /\ UNCHANGED <<current_position_side, entry_price, stop_loss_price>>
            /\ matched' \in {"absent", "open"}
                 => /\ UNCHANGED controller
                    /\ ~CancelRequested]_vars

\* the venue's rejection of the pending order has been taken in
C16_Witness ==
    /\ op = "check_filled_orders"
    /\ matched = "rejected"
    /\ Idle
    /\ last_order.status = "rejected"

\* C17 (exit for the full quantity): every market exit order the venue
\* accepts has the quantity of the entry order that opened the position (the
\* venue's latest entry order: no entry order is placed while a position is
\* held).
C17_ExitFullQuantity ==
    [][\A i \in 1..Len(out') :
          (out'[i].call = "place" /\ out'[i].order_type = "market" /\ out'[i].ok)
            => out'[i].quantity = last_order.quantity]_vars

\* the price is on the unfavourable side of the stop, or on it
Breached(side, price, stop) ==
    \/ side = "buy" /\ price <= stop
    \/ side = "sell" /\ price >= stop

\* a market exit order was requested in the step that ends in the primed
\* state
ExitRequested ==
    \E i \in 1..Len(out') : out'[i].call = "place" /\ out'[i].order_type = "market"

\* C18 (stop breach exit): a manage_position that obtained a latest price
\* in session requests the exit exactly when it ends without the position
\* or with the price at or beyond the stop, and a position that is open
\* after it has the price strictly on the favourable side of its stop as
\* updated in that call.
C18_BreachExit ==
    [][(op' = "manage_position" /\ seen_price' # NoPrice)
         => /\ ExitRequested
                 <=> (~BOT_IN_TRADE'
                      \/ Breached(current_position_side', seen_price', stop_loss_price'))
            /\ BOT_IN_TRADE'
                 => ~Breached(current_position_side', seen_price', stop_loss_price')]_vars

\* the configuration v agrees with every read of the manage_position that
\* ends in this step: the reads before the suspension, TSL_STEP if the
\* profit exceeded the break-even threshold, and ORDER_SIZE as the quantity
\* of the exit order
ReadsAgree(v) ==
    /\ tick_reads.stop_loss_distance # 0 => v[3] = tick_reads.stop_loss_distance
    /\ v[5] = tick_reads.session_start
    /\ v[6] = tick_reads.session_end
    /\ (seen_price' # NoPrice
        /\ (IF current_position_side = "buy" THEN seen_price' - entry_price
            ELSE entry_price - seen_price') > MIN_PROFIT_FOR_BREAKEVEN)
         => v[4] = TSL_STEP
    /\ \A i \in 1..Len(out') :
          (out'[i].call = "place" /\ out'[i].order_type = "market")
            => v[2] = out'[i].quantity

\* C19 (per-tick configuration snapshot): when a manage_position that was
\* suspended in get_latest_price ends, one of the configurations the
\* globals held during the call agrees with every tunable the call read.
C19_ConfigSnapshot ==
    [][(pc = "fetching" /\ pc' = "idle")
         => \E v \in tick_versions : ReadsAgree(v)]_vars

\* the candle endpoint gave no usable window: the fetch failed, fewer than
\* 4 candles, or no volume in the last five candles
BadWindow(w) == w = NoCandles \/ Len(w) < 4 \/ RefVol(w) = 0

\* an order, entry or exit, was requested in the step that ends in the
\* primed state
OrderRequested == \E i \in 1..Len(out') : out'[i].call = "place"

HeldProfit(price) ==
    IF current_position_side = "buy" THEN price - entry_price ELSE entry_price - price

\* the stop the ratchet rule proposes at a latest price: the entry price at
\* the break-even threshold, whole trail steps beyond it above the threshold
RatchetStop(price) ==
    IF current_position_side = "buy"
    THEN entry_price
           + FloorDiv(HeldProfit(price) - MIN_PROFIT_FOR_BREAKEVEN, TSL_STEP) * TSL_STEP
    ELSE entry_price
           - FloorDiv(HeldProfit(price) - MIN_PROFIT_FOR_BREAKEVEN, TSL_STEP) * TSL_STEP

\* the ratchet rule tightens the stop of the held position at a latest price
RatchetDue(price) ==
    /\ HeldProfit(price) >= MIN_PROFIT_FOR_BREAKEVEN
    /\ IF current_position_side = "buy"
       THEN stop_loss_price < RatchetStop(price)
       ELSE stop_loss_price > RatchetStop(price)

\* C23 (a ratchet step alone never triggers the exit): with a positive
\* break-even threshold and a positive trail step, a manage_position that
\* tightens the stop of a held position at the latest price it obtained
\* adopts a stop strictly below that price for a long position and strictly
\* above it for a short one, keeps the position and requests no order.
C23_RatchetKeepsPosition ==
    [][(/\ op' = "manage_position"
        /\ BOT_IN_TRADE
        /\ InSession
        /\ seen_price' # NoPrice
        /\ TSL_STEP > 0
        /\ MIN_PROFIT_FOR_BREAKEVEN > 0
        /\ RatchetDue(seen_price')
        /\ \A i \in 1..Len(out') : out'[i].ok)
         => /\ BOT_IN_TRADE'
            /\ ~OrderRequested
            /\ ctl' = "run"
            /\ stop_loss_price' = RatchetStop(seen_price')
            /\ ~Breached(current_position_side', seen_price', stop_loss_price')
            /\ UNCHANGED <<current_position_side, entry_price>>]_vars

\* a short position whose stop was trailed two steps below the entry price
\* at the latest price 55
C23_Witness ==
    /\ op = "manage_position"
    /\ InSession
    /\ BOT_IN_TRADE
    /\ current_position_side = "sell"
    /\ entry_price = 100
    /\ TSL_STEP = 10
    /\ seen_price = 55
    /\ stop_loss_price = 80
    /\ out = <<>>

RECURSIVE AttemptsBefore(_, _)
\* the attempts made by the calls before the k-th call of a step
AttemptsBefore(a, k) == IF k <= 1 THEN 0 ELSE AttemptsBefore(a, k - 1) + a[k - 1]

\* the outcome the i-th attempt of a step was given
GivenOutcome(in, i) == IF i <= Len(in.net) THEN in.net[i] ELSE in.tail

\* the inputs of a step with every attempt succeeding
Untroubled(in) == [in EXCEPT !.net = AllOk, !.tail = TRUE]

\* controller, venue, the calls made and the way a handler ended
ResultOf(m) ==
    <<m.BOT_IN_TRADE, m.current_position_side, m.entry_price, m.stop_loss_price,
      m.pending_order_id, m.pending_order_side, m.pending_trigger_price,
      m.order_count, m.last_order, m.out, m.ctl>>

\* C22 (transient failures): every outbound call of a handler makes between
\* 1 and MAX_ERROR_RETRIES attempts; it succeeds exactly when one of the
\* attempts of its budget succeeds, and then stops at the first such
\* attempt; the fatal branch is entered only if some call failed on all its
\* attempts; and a handler all of whose calls succeeded leaves the state,
\* and makes the calls, of the same handler with no failed attempt.
C22_TransientFailures ==
    [][op' \in {"check_strategy_conditions", "manage_position", "force_close_position"}
        => /\ Len(attempts') = Len(out')
           /\ \A k \in 1..Len(out') :
                 /\ attempts'[k] \in 1..MAX_ERROR_RETRIES
                 /\ out'[k].ok
                      <=> \E j \in 1..MAX_ERROR_RETRIES :
                             GivenOutcome(call_in', AttemptsBefore(attempts', k) + j)
                 /\ out'[k].ok
                      => /\ GivenOutcome(call_in', AttemptsBefore(attempts', k) + attempts'[k])
                         /\ \A j \in 1..(attempts'[k] - 1) :
                               ~GivenOutcome(call_in', AttemptsBefore(attempts', k) + j)
           /\ fatal_entries' > 0 => \E k \in 1..Len(out') : ~out'[k].ok
           /\ (\A k \in 1..Len(out') : out'[k].ok)
                => /\ fatal_entries' = 0
                   /\ ctl' # "exit"
                   /\ <<BOT_IN_TRADE', current_position_side', entry_price',
                        stop_loss_price', pending_order_id', pending_order_side',
                        pending_trigger_price', order_count', last_order', out', ctl'>>
                        = ResultOf(Handle(op', Untroubled(call_in')))]_vars

\* an entry order placed by the second attempt of its call
C22_Witness ==
    /\ op = "check_strategy_conditions"
    /\ Len(out) = 1
    /\ out[1].call = "place"
    /\ out[1].ok
    /\ attempts = <<2>>
    /\ ~call_in.net[1]
    /\ fatal_entries = 0
    /\ pending_order_id # NoOrder
====
